---- MODULE Spec2Model ----
(***************************************************************************)
(* Model of src/app.py: the shared cart / order-ticket coordinator.        *)
(*                                                                         *)
(* db            the sqlite file orders.db: tables sessions, orders,       *)
(*               order_tickets and the call_state singleton                *)
(* users_in_room the process-wide presence map  session -> conn -> entry   *)
(* locks_in_room the process-wide lock map      session -> line -> lock    *)
(*               (a lock's ts is written and never read: left out)         *)
(* now           the wall clock, in ticks of one session TTL (24 hours)    *)
(* uuid_n        how many uuid4() line ids have been drawn                 *)
(* alive         the socket connections that have not disconnected         *)
(* out           what the last handler emitted / answered                  *)
(* inflight      submissions running step by step (interleaved model)      *)
(* answered      history: the order ids that submissions of a session code *)
(*               have answered so far                                      *)
(*                                                                         *)
(* Columns that no handler reads back (created_at, updated_at, table_num,  *)
(* the time column of orders and tickets) are left out of the rows.        *)
(* Timestamps are whole ticks, so the strftime / strptime round trip of    *)
(* now_str() and expires_str() (second resolution, fixed zone) keeps them. *)
(* json.dumps / json.loads of a normalised cart is a list of flat records  *)
(* of integers and strings and returns the list it was given.              *)
(***************************************************************************)
EXTENDS Integers, Sequences, FiniteSets, TLC

VARIABLES db, users_in_room, locks_in_room, now, uuid_n, alive, out, inflight, answered

vars == <<db, users_in_room, locks_in_room, now, uuid_n, alive, out, inflight, answered>>

---------------------------------------------------------------------------
(* Bounds of the model *)

\* cart_add stops after this many calls (each may draw one uuid4 line id)
MaxAdds == 2
\* the clock stops here
MaxTime == 2

\* session codes clients use
SessionIds == {"1001", "1002"}
\* socket connection ids (request.sid)
Conns == {"k1", "k2"}
\* nicknames clients send; "" is a missing nickname
NickInputs == {"", "amy"}
\* line ids clients name in lock / edit requests: the ids uuid4() can hand out
LineIds == 1..MaxAdds

---------------------------------------------------------------------------
(* Program constants *)

\* SESSION_TTL_SECONDS = 24 * 60 * 60, in clock ticks of 24 hours
SESSION_TTL_SECONDS == 1
ORDER_STATUS_ALLOWED == {"new", "making", "done", "cancelled"}
\* the default nickname of on_join / on_lock_line
DefaultNick == "guest"
\* status values a staff request may carry: the allowed ones, one padded and
\* capitalised, an unknown one, and the default of a request without status
StatusInputs == ORDER_STATUS_ALLOWED \cup {"bogus", " Done ", ""}

\* codes a staff request may carry: well formed (4 digits), padded, written
\* in non-ASCII digits, or malformed
WellFormedCodes == SessionIds \cup {"9999"}
MalformedCodes == {"", "12", "12a4", "12345"}
CodeInputs == WellFormedCodes \cup MalformedCodes \cup {" 9999 ", "arabic 3333"}

\* the characters of each text a request may carry, as Python sees them: a
\* character is a one-character string, and "U+0663" stands for the single
\* character ARABIC-INDIC DIGIT THREE ("arabic 3333" is four of them)
Chars(s) ==
    CASE s = "new"         -> <<"n", "e", "w">>
      [] s = "making"      -> <<"m", "a", "k", "i", "n", "g">>
      [] s = "done"        -> <<"d", "o", "n", "e">>
      [] s = "cancelled"   -> <<"c", "a", "n", "c", "e", "l", "l", "e", "d">>
      [] s = "bogus"       -> <<"b", "o", "g", "u", "s">>
      [] s = " Done "      -> <<" ", "D", "o", "n", "e", " ">>
      [] s = "1001"        -> <<"1", "0", "0", "1">>
      [] s = "1002"        -> <<"1", "0", "0", "2">>
      [] s = "9999"        -> <<"9", "9", "9", "9">>
      [] s = " 9999 "      -> <<" ", "9", "9", "9", "9", " ">>
      [] s = "12"          -> <<"1", "2">>
      [] s = "12a4"        -> <<"1", "2", "a", "4">>
      [] s = "12345"       -> <<"1", "2", "3", "4", "5">>
      [] s = "arabic 3333" -> <<"U+0663", "U+0663", "U+0663", "U+0663">>
      [] OTHER             -> <<>>

Texts == StatusInputs \cup CodeInputs

\* the text made of the characters cs
Text(cs) == CHOOSE s \in Texts : Chars(s) = cs

\* str.strip(): leading and trailing whitespace removed
RECURSIVE lstrip(_)
lstrip(cs) == IF cs # <<>> /\ Head(cs) \in {" ", "\t", "\n"} THEN lstrip(Tail(cs)) ELSE cs

RECURSIVE rstrip(_)
rstrip(cs) == IF cs # <<>> /\ cs[Len(cs)] \in {" ", "\t", "\n"}
              THEN rstrip(SubSeq(cs, 1, Len(cs) - 1)) ELSE cs

strip(cs) == rstrip(lstrip(cs))

\* str.lower(), on the letters the inputs use
UpperCase == <<"A", "B", "C", "D", "E", "G", "I", "K", "L", "M", "N", "O", "S", "U", "W">>
LowerCase == <<"a", "b", "c", "d", "e", "g", "i", "k", "l", "m", "n", "o", "s", "u", "w">>

lower(cs) == [i \in 1..Len(cs) |->
                IF \E k \in 1..Len(UpperCase) : UpperCase[k] = cs[i]
                THEN LowerCase[CHOOSE k \in 1..Len(UpperCase) : UpperCase[k] = cs[i]]
                ELSE cs[i]]

\* str(data.get("status", "")).strip().lower() of every status input
NormalStatus == [raw \in StatusInputs |-> Text(lower(strip(Chars(raw))))]

\* str(data.get("code", "")).strip() of every code input
StrippedCode == [raw \in CodeInputs |-> Text(strip(Chars(raw)))]

\* str.isdigit(): every character has the Unicode digit property and there
\* is at least one character
isdigit(cs) ==
    /\ cs # <<>>
    /\ \A i \in 1..Len(cs) :
          cs[i] \in {"0", "1", "2", "3", "4", "5", "6", "7", "8", "9", "U+0663"}

---------------------------------------------------------------------------
(* Helpers *)

now_str == now
expires_str == now + SESSION_TTL_SECONDS

RECURSIVE SumSeq(_)
SumSeq(s) == IF s = <<>> THEN 0 ELSE Head(s) + SumSeq(Tail(s))

\* faulty variant: the quantity is taken as sent
Max2_as_sent(a, b) == b

Max2(a, b) == IF a >= b THEN a ELSE b

\* item.get(k, default): an item is a record that may lack any of its fields
Get(item, k, default) == IF k \in DOMAIN item THEN item[k] ELSE default

\* int() of the whole numbers clients send is the number itself; a lineId of 0
\* stands for a missing or empty one (item.get("lineId") or uuid4().hex);
\* the add-ons of a line are stored as they were sent
normalize_cart_item(item, uuid) ==
    [ lineId |-> IF Get(item, "lineId", 0) # 0 THEN item.lineId ELSE uuid,
      price  |-> Get(item, "price", 0),
      qty    |-> Max2(1, Get(item, "qty", 1)),
      remark |-> Get(item, "remark", ""),
      addOns |-> Get(item, "addOns", <<>>) ]

calc_total(items) ==
    SumSeq([i \in 1..Len(items) |->
              LET it == items[i]
                  ons == Get(it, "addOns", <<>>)
                  add == SumSeq([a \in 1..Len(ons) |-> Get(ons[a], "price", 0)])
              IN (Get(it, "price", 0) + add) * Get(it, "qty", 1)])

\* str(nickname or default).strip()[:12] or default, on short trimmed names
NickOf(n) == IF n = "" THEN DefaultNick ELSE n

---------------------------------------------------------------------------
(* Call state *)

get_call_state(d) == [code |-> d.call_state.code, updated_at |-> d.call_state.updated_at]

set_call_code(d, code) ==
    [d EXCEPT !.call_state = [code |-> code, updated_at |-> now]]

---------------------------------------------------------------------------
(* Sessions *)

HasRow(d, sid) == sid \in DOMAIN d.sessions

\* faulty variant: a session is still active at the instant of its expiry
session_is_active_inclusive(d, sid) ==
    IF ~HasRow(d, sid) THEN FALSE
    ELSE now <= d.sessions[sid].expires_at

session_is_active(d, sid) ==
    IF ~HasRow(d, sid) THEN FALSE
    ELSE now < d.sessions[sid].expires_at

FreshRow == [cart_json |-> <<>>, expires_at |-> expires_str, order_id |-> 0]

PutRow(d, sid, row) ==
    [d EXCEPT !.sessions =
        [s \in (DOMAIN d.sessions) \cup {sid} |-> IF s = sid THEN row ELSE d.sessions[s]]]

\* faulty variant: force_reset is ignored, only expiry resets a session
ensure_session_no_force(d, sid, force_reset) ==
    IF sid = "" THEN d
    ELSE IF ~HasRow(d, sid) THEN PutRow(d, sid, FreshRow)
    ELSE IF now >= d.sessions[sid].expires_at
         THEN PutRow(d, sid, FreshRow)
         ELSE d

ensure_session(d, sid, force_reset) ==
    IF sid = "" THEN d
    ELSE IF ~HasRow(d, sid) THEN PutRow(d, sid, FreshRow)
    ELSE IF now >= d.sessions[sid].expires_at \/ force_reset
         THEN PutRow(d, sid, FreshRow)
         ELSE d

get_session_cart(d, sid) ==
    IF ~HasRow(d, sid) THEN <<>> ELSE d.sessions[sid].cart_json

\* the cart handed in is normalised line by line; uuid is the id uuid4() gives
\* to the one line that can still lack an id
save_session_cart(d, sid, cart, uuid) ==
    LET norm == [i \in 1..Len(cart) |-> normalize_cart_item(cart[i], uuid)]
    IN IF HasRow(d, sid)
       THEN PutRow(d, sid, [d.sessions[sid] EXCEPT !.cart_json = norm,
                                                   !.expires_at = expires_str])
       ELSE PutRow(d, sid, [cart_json |-> norm, expires_at |-> expires_str,
                            order_id |-> 0])

---------------------------------------------------------------------------
(* Orders: one fixed order id per session code, tickets merged while new.  *)
(* orders and order_tickets are AUTOINCREMENT tables that never delete, so *)
(* a row's id is its position in the sequence.  order_id 0 is NULL.        *)

_get_session_order_id(d, sid) ==
    IF ~HasRow(d, sid) THEN 0 ELSE d.sessions[sid].order_id

_set_session_order_id(d, sid, order_id) ==
    IF ~HasRow(d, sid) THEN d
    ELSE PutRow(d, sid, [d.sessions[sid] EXCEPT !.order_id = order_id])

SetMax(S) == IF S = {} THEN 0 ELSE CHOOSE x \in S : \A y \in S : y <= x

\* faulty variant: the lookup of an order already made under the code is missing
_find_existing_order_for_session_none(d, sid) == 0

\* SELECT MAX(id) FROM orders WHERE session_id=?
_find_existing_order_for_session(d, sid) ==
    SetMax({i \in 1..Len(d.orders) : d.orders[i].session_id = sid})

\* returns the table and lastrowid
_create_order_header(d, sid, items) ==
    [ db |-> [d EXCEPT !.orders = Append(@, [session_id |-> sid, items |-> items,
                                             status |-> "new"])],
      id |-> Len(d.orders) + 1 ]

\* faulty variant: the header keeps only the lines of the last submission
_append_items_to_header_replace(d, order_id, new_items) ==
    IF order_id \in 1..Len(d.orders)
    THEN [d EXCEPT !.orders[order_id].items = new_items]
    ELSE d

\* old_items + new_items written back, in one connection
_append_items_to_header(d, order_id, new_items) ==
    IF order_id \in 1..Len(d.orders)
    THEN [d EXCEPT !.orders[order_id].items = @ \o new_items]
    ELSE d

TicketsOf(d, order_id) == {t \in 1..Len(d.tickets) : d.tickets[t].order_id = order_id}

\* faulty variant: no open ticket is ever found, so every submission opens a ticket
_get_open_new_ticket_none(d, order_id) == 0

\* ... WHERE order_id=? AND status='new' ORDER BY id DESC LIMIT 1; 0 is None
_get_open_new_ticket(d, order_id) ==
    SetMax({t \in TicketsOf(d, order_id) : d.tickets[t].status = "new"})

\* faulty variant: the WHERE order_id=? is missing, the maximum is over all tickets
_get_next_batch_no_global(d, order_id) ==
    SetMax({d.tickets[t].batch_no : t \in 1..Len(d.tickets)}) + 1

\* SELECT COALESCE(MAX(batch_no), 0) ... + 1
_get_next_batch_no(d, order_id) ==
    SetMax({d.tickets[t].batch_no : t \in TicketsOf(d, order_id)}) + 1

_create_ticket(d, order_id, sid, items, batch_no) ==
    [ db |-> [d EXCEPT !.tickets = Append(@, [order_id |-> order_id, session_id |-> sid,
                                              items |-> items, status |-> "new",
                                              batch_no |-> batch_no])],
      id |-> Len(d.tickets) + 1 ]

_merge_into_ticket(d, ticket_id, merged_items) ==
    IF ticket_id \in 1..Len(d.tickets)
    THEN [d EXCEPT !.tickets[ticket_id].items = merged_items]
    ELSE d

get_or_create_order_id_for_session(d, sid, items_for_first) ==
    LET d1  == ensure_session(d, sid, FALSE)
        oid == _get_session_order_id(d1, sid)
        existing == _find_existing_order_for_session(d1, sid)
        made == _create_order_header(d1, sid, items_for_first)
    IN IF oid # 0 THEN [db |-> d1, id |-> oid]
       ELSE IF existing # 0
            THEN [db |-> _set_session_order_id(d1, sid, existing), id |-> existing]
            ELSE [db |-> _set_session_order_id(made.db, sid, made.id), id |-> made.id]

\* the answer of a submission that returned None
NoResult == [orderId |-> 0, ticketId |-> 0, batchNo |-> 0, merged |-> FALSE]

\* the stored cart is already normalised, so normalising it again draws no uuid
NormCart(cart) == [i \in 1..Len(cart) |-> normalize_cart_item(cart[i], 0)]

submit_cart_create_or_merge_ticket(d, sid, cart) ==
    LET cart_items == NormCart(cart)
        got  == get_or_create_order_id_for_session(d, sid, cart_items)
        d2   == _append_items_to_header(got.db, got.id, cart_items)
        open_ticket == _get_open_new_ticket(d2, got.id)
        merged == d2.tickets[open_ticket].items \o cart_items
        batch_no == _get_next_batch_no(d2, got.id)
        made == _create_ticket(d2, got.id, sid, cart_items, batch_no)
    IN IF cart_items = <<>> THEN [db |-> d, result |-> NoResult]
       ELSE IF open_ticket # 0
            THEN [ db |-> _merge_into_ticket(d2, open_ticket, merged),
                   result |-> [orderId |-> got.id, ticketId |-> open_ticket,
                               batchNo |-> d2.tickets[open_ticket].batch_no,
                               merged |-> TRUE] ]
            ELSE [ db |-> made.db,
                   result |-> [orderId |-> got.id, ticketId |-> made.id,
                               batchNo |-> batch_no, merged |-> FALSE] ]

\* the order id load_order_by_session resolves, and the binding it may write;
\* id 0 is the None answer (exists=false)
load_order_by_session(d, sid) ==
    LET bound == _get_session_order_id(d, sid)
        found == _find_existing_order_for_session(d, sid)
        order_id == IF bound # 0 THEN bound ELSE found
        d1 == IF bound = 0 /\ found # 0 THEN _set_session_order_id(d, sid, found) ELSE d
    IN IF order_id = 0 THEN [db |-> d, id |-> 0, items |-> <<>>, total |-> 0]
       ELSE IF order_id \notin 1..Len(d1.orders)
            THEN [db |-> d1, id |-> 0, items |-> <<>>, total |-> 0]
            ELSE [ db |-> d1, id |-> order_id,
                   items |-> NormCart(d1.orders[order_id].items),
                   total |-> calc_total(NormCart(d1.orders[order_id].items)) ]

\* UPDATE order_tickets SET status=? WHERE id=?; ok is rowcount > 0
update_ticket_status(d, ticket_id, status) ==
    IF ticket_id \in 1..Len(d.tickets)
    THEN [db |-> [d EXCEPT !.tickets[ticket_id].status = status], ok |-> TRUE]
    ELSE [db |-> d, ok |-> FALSE]

\* faulty variant: the row is looked up by order id instead of ticket id
get_session_id_by_ticket_id_by_order(d, ticket_id) ==
    IF TicketsOf(d, ticket_id) # {}
    THEN d.tickets[SetMax(TicketsOf(d, ticket_id))].session_id
    ELSE ""

\* "" is None
get_session_id_by_ticket_id(d, ticket_id) ==
    IF ticket_id \in 1..Len(d.tickets) THEN d.tickets[ticket_id].session_id ELSE ""

---------------------------------------------------------------------------
(* Socket state and what a handler sends.                                  *)
(* A message is [event, to, room, data]: to is "caller" (emit inside a     *)
(* handler, room = the caller's connection id), "room" (room=sid) or "all" *)
(* (socketio.emit without a room).                                         *)

Msg(event, to, room, data) == [event |-> event, to |-> to, room |-> room, data |-> data]

ToCaller(c, event, data) == Msg(event, "caller", c, data)
ToRoom(sid, event, data) == Msg(event, "room", sid, data)
ToAll(event, data)       == Msg(event, "all", "", data)

\* the REST answer of a route: the json body and the http status
Http(code, body) == Msg("http", "caller", "rest", [status |-> code, body |-> body])

\* faulty variant: the lock records are sent as stored
locks_public_as_stored(locks, sid) ==
    [l \in DOMAIN locks[sid] |-> locks[sid][l]]

locks_public(locks, sid) ==
    [l \in DOMAIN locks[sid] |-> [byName |-> locks[sid][l].byName]]

\* list(users_in_room.get(sid, {}).values()), as the set of entries
UsersList(users, sid) == {users[sid][c] : c \in DOMAIN users[sid]}

broadcast_state(d, users, locks, sid) ==
    ToRoom(sid, "session_state",
           [ sessionId |-> sid,
             cart  |-> get_session_cart(d, sid),
             total |-> calc_total(get_session_cart(d, sid)),
             users |-> UsersList(users, sid),
             locks |-> locks_public(locks, sid) ])

\* index of the first line with that id, 0 for the code's -1
_find_item_idx(cart, line_id) ==
    IF \E i \in 1..Len(cart) : cart[i].lineId = line_id
    THEN CHOOSE i \in 1..Len(cart) : /\ cart[i].lineId = line_id
                                     /\ \A j \in 1..(i-1) : cart[j].lineId # line_id
    ELSE 0

\* dict helpers
DictSet(f, k, v) == [x \in (DOMAIN f) \cup {k} |-> IF x = k THEN v ELSE f[x]]
DictDel(f, k)    == [x \in (DOMAIN f) \ {k} |-> f[x]]
EmptyDict        == [x \in {} |-> 0]
RemoveAt(s, i)   == SubSeq(s, 1, i-1) \o SubSeq(s, i+1, Len(s))

\* faulty variant: the test of the holder is missing, nobody is ever locked out
LockedByOther_off(locks, sid, line_id, c) == FALSE

\* faulty variant: the holder is not told apart from the others
LockedByOther_anyone(locks, sid, line_id, c) == line_id \in DOMAIN locks[sid]

\* the lock a different connection holds on the line, as the handlers test it
LockedByOther(locks, sid, line_id, c) ==
    /\ line_id \in DOMAIN locks[sid]
    /\ locks[sid][line_id].bySid # c

RejectLocked(locks, sid, line_id, c) ==
    ToCaller(c, "op_rejected", [reason |-> "locked", byName |-> locks[sid][line_id].byName])

RejectNotFound(c) ==
    ToCaller(c, "op_rejected", [reason |-> "not found", byName |-> ""])

---------------------------------------------------------------------------
(* Socket handlers, each one atomic step *)

Idle == UNCHANGED <<inflight, answered>>

on_join(c, sid, nickname) ==
    LET d1 == ensure_session(db, sid, FALSE)
        u1 == [users_in_room EXCEPT ![sid] =
                  DictSet(@, c, [sid |-> c, nickname |-> NickOf(nickname)])]
    IN /\ c \in alive
       /\ db' = d1
       /\ users_in_room' = u1
       /\ out' = <<broadcast_state(d1, u1, locks_in_room, sid)>>
       /\ UNCHANGED <<locks_in_room, now, uuid_n, alive>>
       /\ Idle

on_set_nickname(c, sid, nickname) ==
    LET u1 == IF sid # "" /\ c \in DOMAIN users_in_room[sid]
              THEN [users_in_room EXCEPT ![sid][c].nickname = NickOf(nickname)]
              ELSE users_in_room
    IN /\ c \in alive
       /\ users_in_room' = u1
       /\ out' = IF sid = "" THEN <<>>
                 ELSE <<broadcast_state(db, u1, locks_in_room, sid)>>
       /\ UNCHANGED <<db, locks_in_room, now, uuid_n, alive>>
       /\ Idle

on_lock_line(c, sid, line_id, nickname) ==
    LET name == NickOf(nickname)
        l1 == [locks_in_room EXCEPT ![sid] =
                  DictSet(@, line_id, [bySid |-> c, byName |-> name, ts |-> now])]
    IN /\ c \in alive
       /\ IF sid = "" \/ line_id = 0
          THEN /\ out' = <<>>
               /\ UNCHANGED locks_in_room
          ELSE IF LockedByOther(locks_in_room, sid, line_id, c)
          THEN /\ out' = <<ToCaller(c, "lock_denied",
                              [lineId |-> line_id,
                               byName |-> locks_in_room[sid][line_id].byName])>>
               /\ UNCHANGED locks_in_room
          ELSE /\ locks_in_room' = l1
               /\ out' = << ToRoom(sid, "lock_update", [lineId |-> line_id, byName |-> name]),
                            broadcast_state(db, users_in_room, l1, sid) >>
       /\ UNCHANGED <<db, users_in_room, now, uuid_n, alive>>
       /\ Idle

\* faulty variant: any connection may release a held line
on_unlock_line_any_holder(c, sid, line_id) ==
    LET l1 == [locks_in_room EXCEPT ![sid] = DictDel(@, line_id)]
    IN /\ c \in alive
       /\ IF sid = "" \/ line_id = 0
          THEN /\ out' = <<>>
               /\ UNCHANGED locks_in_room
          ELSE IF line_id \notin DOMAIN locks_in_room[sid]
          THEN /\ out' = <<>>
               /\ UNCHANGED locks_in_room
          ELSE /\ locks_in_room' = l1
               /\ out' = << ToRoom(sid, "lock_remove", [lineId |-> line_id]),
                            broadcast_state(db, users_in_room, l1, sid) >>
       /\ UNCHANGED <<db, users_in_room, now, uuid_n, alive>>
       /\ Idle

on_unlock_line(c, sid, line_id) ==
    LET l1 == [locks_in_room EXCEPT ![sid] = DictDel(@, line_id)]
    IN /\ c \in alive
       /\ IF sid = "" \/ line_id = 0
          THEN /\ out' = <<>>
               /\ UNCHANGED locks_in_room
          ELSE IF line_id \notin DOMAIN locks_in_room[sid]
                  \/ locks_in_room[sid][line_id].bySid # c
          THEN /\ out' = <<>>
               /\ UNCHANGED locks_in_room
          ELSE /\ locks_in_room' = l1
               /\ out' = << ToRoom(sid, "lock_remove", [lineId |-> line_id]),
                            broadcast_state(db, users_in_room, l1, sid) >>
       /\ UNCHANGED <<db, users_in_room, now, uuid_n, alive>>
       /\ Idle

on_cart_add(c, sid, item) ==
    LET d1 == ensure_session(db, sid, FALSE)
        cart == Append(get_session_cart(d1, sid), item)
        d2 == save_session_cart(d1, sid, cart, uuid_n + 1)
    IN /\ c \in alive
       /\ uuid_n < MaxAdds
       /\ Get(item, "lineId", 0) \in 0..uuid_n
       /\ db' = d2
       /\ uuid_n' = uuid_n + 1
       /\ out' = <<broadcast_state(d2, users_in_room, locks_in_room, sid)>>
       /\ UNCHANGED <<users_in_room, locks_in_room, now, alive>>
       /\ Idle

\* what cart_set_qty, cart_set_remark and cart_remove share: the guards, then
\* the edit of line idx (edit(cart, idx) is the new cart), the lock of a removed
\* line dropped, save and broadcast
CartEdit(c, sid, line_id, edit(_, _), drop_lock) ==
    LET d1 == ensure_session(db, sid, FALSE)
        cart == get_session_cart(d1, sid)
        idx == _find_item_idx(cart, line_id)
        l1 == IF drop_lock /\ line_id \in DOMAIN locks_in_room[sid]
              THEN [locks_in_room EXCEPT ![sid] = DictDel(@, line_id)]
              ELSE locks_in_room
        d2 == save_session_cart(d1, sid, edit(cart, idx), 0)
    IN /\ IF sid = "" \/ line_id = 0
          THEN /\ out' = <<>>
               /\ UNCHANGED <<db, locks_in_room>>
          ELSE IF LockedByOther(locks_in_room, sid, line_id, c)
          THEN /\ out' = <<RejectLocked(locks_in_room, sid, line_id, c)>>
               /\ UNCHANGED <<db, locks_in_room>>
          ELSE IF idx = 0
          THEN /\ out' = <<RejectNotFound(c)>>
               /\ db' = d1
               /\ UNCHANGED locks_in_room
          ELSE /\ db' = d2
               /\ locks_in_room' = l1
               /\ out' = (IF l1 # locks_in_room
                          THEN <<ToRoom(sid, "lock_remove", [lineId |-> line_id])>>
                          ELSE <<>>)
                         \o <<broadcast_state(d2, users_in_room, l1, sid)>>
       /\ UNCHANGED <<users_in_room, now, uuid_n, alive>>
       /\ Idle

on_cart_set_qty(c, sid, line_id, qty) ==
    LET q == Max2(1, qty)
        edit(cart, idx) == [cart EXCEPT ![idx].qty = q]
    IN /\ c \in alive
       /\ CartEdit(c, sid, line_id, edit, FALSE)

on_cart_set_remark(c, sid, line_id, remark) ==
    LET edit(cart, idx) == [cart EXCEPT ![idx].remark = remark]
    IN /\ c \in alive
       /\ CartEdit(c, sid, line_id, edit, FALSE)

on_cart_remove(c, sid, line_id) ==
    LET edit(cart, idx) == RemoveAt(cart, idx)
    IN /\ c \in alive
       /\ CartEdit(c, sid, line_id, edit, TRUE)

on_order_detail(c, sid) ==
    LET o == load_order_by_session(db, sid)
    IN /\ c \in alive
       /\ db' = o.db
       /\ out' = <<ToCaller(c, "order_detail_result",
                            [exists |-> o.id # 0, id |-> o.id, total |-> o.total])>>
       /\ UNCHANGED <<users_in_room, locks_in_room, now, uuid_n, alive>>
       /\ Idle

\* faulty variant: the locks of the session are kept after the submission
SubmitFinish_keeps_locks(d, sid, result) ==
    LET d1 == save_session_cart(d, sid, <<>>, 0)
        o  == load_order_by_session(d1, sid)
    IN /\ db' = o.db
       /\ locks_in_room' = locks_in_room
       /\ out' = << ToRoom(sid, "submit_result",
                           [ok |-> TRUE, msg |-> "", orderId |-> result.orderId,
                            ticketId |-> result.ticketId, batchNo |-> result.batchNo,
                            merged |-> result.merged]),
                    ToRoom(sid, "order_detail_result",
                           [exists |-> TRUE, id |-> o.id, total |-> o.total]),
                    broadcast_state(o.db, users_in_room, locks_in_room, sid) >>

\* the tail of on_submit after a submission that returned a result
SubmitFinish(d, sid, result) ==
    LET d1 == save_session_cart(d, sid, <<>>, 0)
        l1 == [locks_in_room EXCEPT ![sid] = EmptyDict]
        o  == load_order_by_session(d1, sid)
    IN /\ db' = o.db
       /\ locks_in_room' = l1
       /\ out' = << ToRoom(sid, "submit_result",
                           [ok |-> TRUE, msg |-> "", orderId |-> result.orderId,
                            ticketId |-> result.ticketId, batchNo |-> result.batchNo,
                            merged |-> result.merged]),
                    ToRoom(sid, "order_detail_result",
                           [exists |-> TRUE, id |-> o.id, total |-> o.total]),
                    broadcast_state(o.db, users_in_room, l1, sid) >>

SubmitFail(to, room, msg) ==
    Msg("submit_result", to, room,
        [ok |-> FALSE, msg |-> msg, orderId |-> 0, ticketId |-> 0, batchNo |-> 0,
         merged |-> FALSE])

\* faulty variant: the locks are dropped before the cart is tested
on_submit_locks_first(c, sid) ==
    LET d1 == ensure_session(db, sid, FALSE)
        cart == get_session_cart(d1, sid)
        sub == submit_cart_create_or_merge_ticket(d1, sid, cart)
    IN /\ c \in alive
       /\ IF sid = ""
          THEN /\ out' = <<SubmitFail("caller", c, "missing sessionId")>>
               /\ UNCHANGED <<db, locks_in_room>>
          ELSE IF cart = <<>>
          THEN /\ out' = <<SubmitFail("room", sid, "cart empty")>>
               /\ db' = d1
               /\ locks_in_room' = [locks_in_room EXCEPT ![sid] = EmptyDict]
          ELSE IF sub.result = NoResult
          THEN /\ out' = <<SubmitFail("room", sid, "submit failed")>>
               /\ db' = sub.db
               /\ UNCHANGED locks_in_room
          ELSE SubmitFinish(sub.db, sid, sub.result)
       /\ answered' = IF sid # "" /\ cart # <<>> /\ sub.result # NoResult
                       THEN [answered EXCEPT ![sid] = @ \cup {sub.result.orderId}]
                       ELSE answered
       /\ UNCHANGED <<users_in_room, now, uuid_n, alive, inflight>>

on_submit(c, sid) ==
    LET d1 == ensure_session(db, sid, FALSE)
        cart == get_session_cart(d1, sid)
        sub == submit_cart_create_or_merge_ticket(d1, sid, cart)
    IN /\ c \in alive
       /\ IF sid = ""
          THEN /\ out' = <<SubmitFail("caller", c, "missing sessionId")>>
               /\ UNCHANGED <<db, locks_in_room>>
          ELSE IF cart = <<>>
          THEN /\ out' = <<SubmitFail("room", sid, "cart empty")>>
               /\ db' = d1
               /\ UNCHANGED locks_in_room
          ELSE IF sub.result = NoResult
          THEN /\ out' = <<SubmitFail("room", sid, "submit failed")>>
               /\ db' = sub.db
               /\ UNCHANGED locks_in_room
          ELSE SubmitFinish(sub.db, sid, sub.result)
       /\ answered' = IF sid # "" /\ cart # <<>> /\ sub.result # NoResult
                       THEN [answered EXCEPT ![sid] = @ \cup {sub.result.orderId}]
                       ELSE answered
       /\ UNCHANGED <<users_in_room, now, uuid_n, alive, inflight>>

\* the sessions whose presence map holds the connection
RoomsOf(c) == {sid \in DOMAIN users_in_room : c \in DOMAIN users_in_room[sid]}

HeldBy(locks, sid, c) == {l \in DOMAIN locks[sid] : locks[sid][l].bySid = c}

RECURSIVE SeqOfSet(_)
SeqOfSet(S) == IF S = {} THEN <<>>
               ELSE LET x == CHOOSE x \in S : \A y \in S : x <= y
                    IN <<x>> \o SeqOfSet(S \ {x})

RECURSIVE DisconnectMsgs(_, _, _, _)
DisconnectMsgs(rooms, c, u1, l1) ==
    IF rooms = {} THEN <<>>
    ELSE LET sid == CHOOSE x \in rooms : TRUE
             held == SeqOfSet(HeldBy(locks_in_room, sid, c))
         IN [i \in 1..Len(held) |-> ToRoom(sid, "lock_remove", [lineId |-> held[i]])]
            \o <<broadcast_state(db, u1, l1, sid)>>
            \o DisconnectMsgs(rooms \ {sid}, c, u1, l1)

on_disconnect(c) ==
    LET rooms == RoomsOf(c)
        u1 == [sid \in DOMAIN users_in_room |->
                  IF sid \in rooms THEN DictDel(users_in_room[sid], c)
                  ELSE users_in_room[sid]]
        l1 == [sid \in DOMAIN locks_in_room |->
                  IF sid \in rooms
                  THEN [l \in (DOMAIN locks_in_room[sid]) \ HeldBy(locks_in_room, sid, c)
                           |-> locks_in_room[sid][l]]
                  ELSE locks_in_room[sid]]
    IN /\ c \in alive
       /\ alive' = alive \ {c}
       /\ users_in_room' = u1
       /\ locks_in_room' = l1
       /\ out' = DisconnectMsgs(rooms, c, u1, l1)
       /\ UNCHANGED <<db, now, uuid_n>>
       /\ Idle

---------------------------------------------------------------------------
(* on_submit step by step: one step per store call, so that the store      *)
(* calls of two submissions interleave.  Every helper opens its own        *)
(* connection and commits on its own; nothing spans two calls.             *)

IdleFlight == [ pc |-> "idle", sid |-> "", cart_items |-> <<>>, order_id |-> 0,
                open_ticket |-> 0, old_items |-> <<>>, batch_no |-> 0,
                result |-> NoResult, item |-> <<>>, line_id |-> 0, qty |-> 0 ]

At(c, pc) == c \in alive /\ inflight[c].pc = pc

Goto(c, pc) == inflight' = [inflight EXCEPT ![c].pc = pc]

StepFrame == UNCHANGED <<users_in_room, now, uuid_n, alive, answered>>

\* on_submit: ensure_session(sid)
sub_begin(c, sid) ==
    /\ At(c, "idle") /\ sid # ""
    /\ db' = ensure_session(db, sid, FALSE)
    /\ inflight' = [inflight EXCEPT ![c] = [IdleFlight EXCEPT !.pc = "get_cart", !.sid = sid]]
    /\ UNCHANGED <<locks_in_room, out>> /\ StepFrame

\* on_submit: cart = get_session_cart(sid), the empty check, and the
\* normalisation at the head of submit_cart_create_or_merge_ticket
sub_get_cart(c) ==
    LET sid == inflight[c].sid
        cart == get_session_cart(db, sid)
    IN /\ At(c, "get_cart")
       /\ IF cart = <<>>
          THEN /\ out' = <<SubmitFail("room", sid, "cart empty")>>
               /\ inflight' = [inflight EXCEPT ![c] = IdleFlight]
          ELSE /\ out' = out
               /\ inflight' = [inflight EXCEPT ![c].pc = "ensure",
                                               ![c].cart_items = NormCart(cart)]
       /\ UNCHANGED <<db, locks_in_room>> /\ StepFrame

\* get_or_create_order_id_for_session: ensure_session(session_id)
sub_ensure(c) ==
    /\ At(c, "ensure")
    /\ db' = ensure_session(db, inflight[c].sid, FALSE)
    /\ Goto(c, "get_oid")
    /\ UNCHANGED <<locks_in_room, out>> /\ StepFrame

\* oid = _get_session_order_id(session_id)
sub_get_oid(c) ==
    LET oid == _get_session_order_id(db, inflight[c].sid)
    IN /\ At(c, "get_oid")
       /\ inflight' = [inflight EXCEPT ![c].order_id = oid,
                                       ![c].pc = IF oid # 0 THEN "append" ELSE "find"]
       /\ UNCHANGED <<db, locks_in_room, out>> /\ StepFrame

\* existing = _find_existing_order_for_session(session_id)
sub_find(c) ==
    LET existing == _find_existing_order_for_session(db, inflight[c].sid)
    IN /\ At(c, "find")
       /\ inflight' = [inflight EXCEPT ![c].order_id = existing,
                                       ![c].pc = IF existing # 0 THEN "bind" ELSE "create_header"]
       /\ UNCHANGED <<db, locks_in_room, out>> /\ StepFrame

\* new_oid = _create_order_header(session_id, table, items_for_first)
sub_create_header(c) ==
    LET made == _create_order_header(db, inflight[c].sid, inflight[c].cart_items)
    IN /\ At(c, "create_header")
       /\ db' = made.db
       /\ inflight' = [inflight EXCEPT ![c].order_id = made.id, ![c].pc = "bind"]
       /\ UNCHANGED <<locks_in_room, out>> /\ StepFrame

\* _set_session_order_id(session_id, existing or new_oid)
sub_bind(c) ==
    /\ At(c, "bind")
    /\ db' = _set_session_order_id(db, inflight[c].sid, inflight[c].order_id)
    /\ Goto(c, "append")
    /\ UNCHANGED <<locks_in_room, out>> /\ StepFrame

\* _append_items_to_header(order_id, table, cart_items)
sub_append(c) ==
    /\ At(c, "append")
    /\ db' = _append_items_to_header(db, inflight[c].order_id, inflight[c].cart_items)
    /\ Goto(c, "open")
    /\ UNCHANGED <<locks_in_room, out>> /\ StepFrame

\* open_ticket = _get_open_new_ticket(order_id): the id, items and batch_no read
sub_open(c) ==
    LET t == _get_open_new_ticket(db, inflight[c].order_id)
    IN /\ At(c, "open")
       /\ inflight' = [inflight EXCEPT
             ![c].open_ticket = t,
             ![c].old_items = IF t # 0 THEN db.tickets[t].items ELSE <<>>,
             ![c].batch_no = IF t # 0 THEN db.tickets[t].batch_no ELSE 0,
             ![c].pc = IF t # 0 THEN "merge" ELSE "next_batch"]
       /\ UNCHANGED <<db, locks_in_room, out>> /\ StepFrame

\* _merge_into_ticket(ticket_id, old_items + cart_items)
sub_merge(c) ==
    LET f == inflight[c]
    IN /\ At(c, "merge")
       /\ db' = _merge_into_ticket(db, f.open_ticket, f.old_items \o f.cart_items)
       /\ inflight' = [inflight EXCEPT
             ![c].result = [orderId |-> f.order_id, ticketId |-> f.open_ticket,
                            batchNo |-> f.batch_no, merged |-> TRUE],
             ![c].pc = "finish"]
       /\ UNCHANGED <<locks_in_room, out>> /\ StepFrame

\* batch_no = _get_next_batch_no(order_id)
sub_next_batch(c) ==
    /\ At(c, "next_batch")
    /\ inflight' = [inflight EXCEPT ![c].batch_no = _get_next_batch_no(db, inflight[c].order_id),
                                    ![c].pc = "create_ticket"]
    /\ UNCHANGED <<db, locks_in_room, out>> /\ StepFrame

\* ticket_id = _create_ticket(order_id, session_id, table, cart_items, batch_no)
sub_create_ticket(c) ==
    LET f == inflight[c]
        made == _create_ticket(db, f.order_id, f.sid, f.cart_items, f.batch_no)
    IN /\ At(c, "create_ticket")
       /\ db' = made.db
       /\ inflight' = [inflight EXCEPT
             ![c].result = [orderId |-> f.order_id, ticketId |-> made.id,
                            batchNo |-> f.batch_no, merged |-> FALSE],
             ![c].pc = "finish"]
       /\ UNCHANGED <<locks_in_room, out>> /\ StepFrame

\* the tail of on_submit: the cart cleared, the locks dropped, the answers sent
sub_finish(c) ==
    /\ At(c, "finish")
    /\ SubmitFinish(db, inflight[c].sid, inflight[c].result)
    /\ answered' = [answered EXCEPT ![inflight[c].sid] = @ \cup {inflight[c].result.orderId}]
    /\ inflight' = [inflight EXCEPT ![c] = IdleFlight]
    /\ UNCHANGED <<users_in_room, now, uuid_n, alive>>

---------------------------------------------------------------------------
(* on_cart_add and on_cart_set_qty step by step: ensure_session, the read  *)
(* of the cart and the save are three store calls on three connections.    *)

\* cart_add handlers that have started and not yet saved
AddsInFlight == {c \in Conns : inflight[c].pc \in {"add_get", "add_save"}}

\* on_cart_add: ensure_session(sid)
add_ensure(c, sid, item) ==
    /\ At(c, "idle")
    /\ uuid_n + Cardinality(AddsInFlight) < MaxAdds
    /\ Get(item, "lineId", 0) \in 0..uuid_n
    /\ db' = ensure_session(db, sid, FALSE)
    /\ inflight' = [inflight EXCEPT ![c] =
                       [IdleFlight EXCEPT !.pc = "add_get", !.sid = sid, !.item = item]]
    /\ UNCHANGED <<locks_in_room, out>> /\ StepFrame

\* on_cart_add: cart = get_session_cart(sid); cart.append(item)
add_get_cart(c) ==
    /\ At(c, "add_get")
    /\ inflight' = [inflight EXCEPT
                       ![c].cart_items = Append(get_session_cart(db, inflight[c].sid),
                                                inflight[c].item),
                       ![c].pc = "add_save"]
    /\ UNCHANGED <<db, locks_in_room, out>> /\ StepFrame

\* on_cart_add: save_session_cart(sid, cart); broadcast_state(sid)
add_save(c) ==
    LET sid == inflight[c].sid
        d1 == save_session_cart(db, sid, inflight[c].cart_items, uuid_n + 1)
    IN /\ At(c, "add_save")
       /\ db' = d1
       /\ uuid_n' = uuid_n + 1
       /\ out' = <<broadcast_state(d1, users_in_room, locks_in_room, sid)>>
       /\ inflight' = [inflight EXCEPT ![c] = IdleFlight]
       /\ UNCHANGED <<users_in_room, locks_in_room, now, alive, answered>>

\* on_cart_set_qty: the guards, the lock test, ensure_session(sid)
qty_ensure(c, sid, line_id, qty) ==
    /\ At(c, "idle")
    /\ IF sid = "" \/ line_id = 0
       THEN UNCHANGED <<db, out, inflight>>
       ELSE IF LockedByOther(locks_in_room, sid, line_id, c)
       THEN /\ out' = <<RejectLocked(locks_in_room, sid, line_id, c)>>
            /\ UNCHANGED <<db, inflight>>
       ELSE /\ db' = ensure_session(db, sid, FALSE)
            /\ out' = out
            /\ inflight' = [inflight EXCEPT ![c] =
                               [IdleFlight EXCEPT !.pc = "qty_get", !.sid = sid,
                                   !.line_id = line_id, !.qty = Max2(1, qty)]]
    /\ UNCHANGED locks_in_room /\ StepFrame

\* on_cart_set_qty: cart = get_session_cart(sid); _find_item_idx; cart[idx]["qty"] = qty
qty_get_cart(c) ==
    LET cart == get_session_cart(db, inflight[c].sid)
        idx == _find_item_idx(cart, inflight[c].line_id)
    IN /\ At(c, "qty_get")
       /\ IF idx = 0
          THEN /\ out' = <<RejectNotFound(c)>>
               /\ inflight' = [inflight EXCEPT ![c] = IdleFlight]
          ELSE /\ out' = out
               /\ inflight' = [inflight EXCEPT
                                  ![c].cart_items = [cart EXCEPT ![idx].qty = inflight[c].qty],
                                  ![c].pc = "qty_save"]
       /\ UNCHANGED <<db, locks_in_room>> /\ StepFrame

\* on_cart_set_qty: save_session_cart(sid, cart); broadcast_state(sid)
qty_save(c) ==
    LET sid == inflight[c].sid
        d1 == save_session_cart(db, sid, inflight[c].cart_items, 0)
    IN /\ At(c, "qty_save")
       /\ db' = d1
       /\ out' = <<broadcast_state(d1, users_in_room, locks_in_room, sid)>>
       /\ inflight' = [inflight EXCEPT ![c] = IdleFlight]
       /\ UNCHANGED locks_in_room /\ StepFrame

---------------------------------------------------------------------------
(* REST routes, each one atomic step *)

\* faulty variant: the status is written before it is validated
update_order_status_api_write_first(ticket_id, raw) ==
    LET status == NormalStatus[raw]
        upd == update_ticket_status(db, ticket_id, status)
        sid == get_session_id_by_ticket_id(upd.db, ticket_id)
    IN /\ IF status \notin ORDER_STATUS_ALLOWED
          THEN /\ out' = <<Http(400, [ok |-> FALSE, msg |-> "invalid status"])>>
               /\ db' = upd.db
          ELSE IF ~upd.ok
          THEN /\ out' = <<Http(404, [ok |-> FALSE, msg |-> "ticket not found"])>>
               /\ db' = upd.db
          ELSE IF status = "done" /\ sid # ""
          THEN /\ db' = set_call_code(upd.db, sid)
               /\ out' = << ToAll("call_update", [code |-> sid, updatedAt |-> now]),
                            Http(200, [ok |-> TRUE, msg |-> ""]) >>
          ELSE /\ db' = upd.db
               /\ out' = <<Http(200, [ok |-> TRUE, msg |-> ""])>>
       /\ UNCHANGED <<users_in_room, locks_in_room, now, uuid_n, alive>>
       /\ Idle

\* faulty variant: every accepted status update announces the ticket's code
update_order_status_api_always_calls(ticket_id, raw) ==
    LET status == NormalStatus[raw]
        upd == update_ticket_status(db, ticket_id, status)
        sid == get_session_id_by_ticket_id(upd.db, ticket_id)
    IN /\ IF status \notin ORDER_STATUS_ALLOWED
          THEN /\ out' = <<Http(400, [ok |-> FALSE, msg |-> "invalid status"])>>
               /\ UNCHANGED db
          ELSE IF ~upd.ok
          THEN /\ out' = <<Http(404, [ok |-> FALSE, msg |-> "ticket not found"])>>
               /\ db' = upd.db
          ELSE IF sid # ""
          THEN /\ db' = set_call_code(upd.db, sid)
               /\ out' = << ToAll("call_update", [code |-> sid, updatedAt |-> now]),
                            Http(200, [ok |-> TRUE, msg |-> ""]) >>
          ELSE /\ db' = upd.db
               /\ out' = <<Http(200, [ok |-> TRUE, msg |-> ""])>>
       /\ UNCHANGED <<users_in_room, locks_in_room, now, uuid_n, alive>>
       /\ Idle

update_order_status_api(ticket_id, raw) ==
    LET status == NormalStatus[raw]
        upd == update_ticket_status(db, ticket_id, status)
        sid == get_session_id_by_ticket_id(upd.db, ticket_id)
    IN /\ IF status \notin ORDER_STATUS_ALLOWED
          THEN /\ out' = <<Http(400, [ok |-> FALSE, msg |-> "invalid status"])>>
               /\ UNCHANGED db
          ELSE IF ~upd.ok
          THEN /\ out' = <<Http(404, [ok |-> FALSE, msg |-> "ticket not found"])>>
               /\ db' = upd.db
          ELSE IF status = "done" /\ sid # ""
          THEN /\ db' = set_call_code(upd.db, sid)
               /\ out' = << ToAll("call_update", [code |-> sid, updatedAt |-> now]),
                            Http(200, [ok |-> TRUE, msg |-> ""]) >>
          ELSE /\ db' = upd.db
               /\ out' = <<Http(200, [ok |-> TRUE, msg |-> ""])>>
       /\ UNCHANGED <<users_in_room, locks_in_room, now, uuid_n, alive>>
       /\ Idle

\* create_unique_session_id draws random codes until one is not active; sid is
\* the draw that passes (the model has no run of 300 active draws)
new_session(sid) ==
    /\ ~session_is_active(db, sid)
    /\ db' = ensure_session(db, sid, TRUE)
    /\ out' = <<Http(200, [ok |-> TRUE, sessionId |-> sid])>>
    /\ UNCHANGED <<users_in_room, locks_in_room, now, uuid_n, alive>>
    /\ Idle

session_exists(sid) ==
    /\ out' = <<Http(200, [ok |-> TRUE, exists |-> (sid # "" /\ session_is_active(db, sid))])>>
    /\ UNCHANGED <<db, users_in_room, locks_in_room, now, uuid_n, alive>>
    /\ Idle

\* create_unique_session_id step by step, c the client whose request runs:
\* the draw of a code with the session_is_active test, then ensure_session
ns_check(c, sid) ==
    /\ At(c, "idle")
    /\ ~session_is_active(db, sid)
    /\ inflight' = [inflight EXCEPT ![c] = [IdleFlight EXCEPT !.pc = "ns_ensure", !.sid = sid]]
    /\ UNCHANGED <<db, locks_in_room, out>> /\ StepFrame

ns_ensure(c) ==
    /\ At(c, "ns_ensure")
    /\ db' = ensure_session(db, inflight[c].sid, TRUE)
    /\ out' = <<Http(200, [ok |-> TRUE, sessionId |-> inflight[c].sid])>>
    /\ inflight' = [inflight EXCEPT ![c] = IdleFlight]
    /\ UNCHANGED locks_in_room /\ StepFrame

\* ensure_session called on its own, as any caller may
ensure_session_call(sid, force_reset) ==
    /\ db' = ensure_session(db, sid, force_reset)
    /\ out' = <<>>
    /\ UNCHANGED <<users_in_room, locks_in_room, now, uuid_n, alive>>
    /\ Idle

\* faulty variant: the length is not tested
IsFourDigits_any_length(code) == isdigit(Chars(code))

\* len(code) == 4 and code.isdigit()
IsFourDigits(code) == Len(Chars(code)) = 4 /\ isdigit(Chars(code))

api_call_get ==
    /\ out' = <<Http(200, [ok |-> TRUE, code |-> get_call_state(db).code,
                           updatedAt |-> get_call_state(db).updated_at])>>
    /\ UNCHANGED <<db, users_in_room, locks_in_room, now, uuid_n, alive>>
    /\ Idle

api_call_post(raw) ==
    /\ LET code == StrippedCode[raw]
       IN IF ~IsFourDigits(code)
          THEN /\ out' = <<Http(400, [ok |-> FALSE, msg |-> "code must be 4 digits"])>>
               /\ UNCHANGED db
          ELSE /\ db' = set_call_code(db, code)
               /\ out' = << ToAll("call_update", [code |-> code, updatedAt |-> now]),
                            Http(200, [ok |-> TRUE, msg |-> ""]) >>
    /\ UNCHANGED <<users_in_room, locks_in_room, now, uuid_n, alive>>
    /\ Idle

\* the wall clock advances
Tick ==
    /\ now < MaxTime
    /\ now' = now + 1
    /\ out' = <<>>
    /\ UNCHANGED <<db, users_in_room, locks_in_room, uuid_n, alive>>
    /\ Idle

---------------------------------------------------------------------------
(* Specification: every handler runs to its end before the next starts *)

SidInputs == SessionIds \cup {""}

\* the item a client adds; lineId 0 is an item sent without a line id
RawItems == [lineId : {0}, price : {30}, qty : {1}, remark : {""}]


Init ==
    /\ db = [ sessions |-> EmptyDict, orders |-> <<>>, tickets |-> <<>>,
              call_state |-> [code |-> "", updated_at |-> 0] ]
    /\ users_in_room = [sid \in SidInputs |-> EmptyDict]
    /\ locks_in_room = [sid \in SidInputs |-> EmptyDict]
    /\ now = 1
    /\ uuid_n = 0
    /\ alive = Conns
    /\ out = <<>>
    /\ inflight = [c \in Conns |-> IdleFlight]
    /\ answered = [sid \in SidInputs |-> {}]

\* customers filling and submitting the carts of two session codes, staff moving
\* the tickets through their statuses, sessions expiring as the clock advances
Next ==
    \/ \E sid \in SessionIds, item \in RawItems : on_cart_add("k1", sid, item)
    \/ \E sid \in SessionIds : on_submit("k1", sid)
    \/ \E t \in 1..MaxAdds, st \in ORDER_STATUS_ALLOWED : update_order_status_api(t, st)
    \/ Tick

Spec == Init /\ [][Next]_vars

\* submissions and order lookups of session codes that expire and are handed
\* out again
NextIdentity ==
    \/ \E sid \in SessionIds, item \in RawItems : on_cart_add("k1", sid, item)
    \/ \E sid \in SessionIds : on_submit("k1", sid)
    \/ \E sid \in SessionIds : on_order_detail("k1", sid)
    \/ \E sid \in SessionIds : new_session(sid)
    \/ Tick

SpecIdentity == Init /\ [][NextIdentity]_vars

\* the nickname each connection sends with its requests; k2 sends none
NickFor(c) == IF c = "k1" THEN "amy" ELSE ""

\* two connections locking and editing the lines of one shared cart
LockSid == "1001"

\* the two lines of that cart both connections lock and edit; the cart may
\* hold further lines that nobody touches
ContendedLines == {1, 2}

NextLocks ==
    \/ \E c \in Conns, l \in ContendedLines : on_lock_line(c, LockSid, l, NickFor(c))
    \/ \E c \in Conns, l \in ContendedLines : on_unlock_line(c, LockSid, l)
    \/ \E c \in Conns, item \in RawItems : on_cart_add(c, LockSid, item)
    \/ \E c \in Conns, l \in ContendedLines, q \in {0, 2} : on_cart_set_qty(c, LockSid, l, q)
    \/ \E c \in Conns, l \in ContendedLines : on_cart_set_remark(c, LockSid, l, "no ice")
    \/ \E c \in Conns, l \in ContendedLines : on_cart_remove(c, LockSid, l)
    \/ Tick

SpecLocks == Init /\ [][NextLocks]_vars

\* two connections taking the locks of one cart's lines, and every way a lock
\* is released: unlock, removal of the line, submission, disconnect
NextRelease ==
    \/ \E c \in Conns : on_join(c, LockSid, NickFor(c))
    \/ \E c \in Conns, l \in LineIds : on_lock_line(c, LockSid, l, NickFor(c))
    \/ \E c \in Conns, l \in LineIds : on_unlock_line(c, LockSid, l)
    \/ \E c \in Conns, item \in RawItems : on_cart_add(c, LockSid, item)
    \/ \E c \in Conns, l \in LineIds : on_cart_remove(c, LockSid, l)
    \/ \E c \in Conns : on_submit(c, LockSid)
    \/ \E c \in Conns : on_disconnect(c)

SpecRelease == Init /\ [][NextRelease]_vars

\* connections joining the rooms of two sessions, taking and releasing locks,
\* and disconnecting
NextPresence ==
    \/ \E c \in Conns, sid \in SessionIds : on_join(c, sid, NickFor(c))
    \/ \E c \in Conns, sid \in SessionIds, l \in LineIds :
          on_lock_line(c, sid, l, NickFor(c))
    \/ \E c \in Conns, sid \in SessionIds, l \in LineIds : on_unlock_line(c, sid, l)
    \/ \E c \in Conns : on_disconnect(c)

SpecPresence == Init /\ [][NextPresence]_vars

\* two connections submitting the cart of one session, their store calls
\* interleaved
NextRace ==
    \/ \E c \in Conns, item \in RawItems : on_cart_add(c, LockSid, item)
    \/ \E c \in Conns : sub_begin(c, LockSid)
    \/ \E c \in Conns : sub_get_cart(c)
    \/ \E c \in Conns : sub_ensure(c)
    \/ \E c \in Conns : sub_get_oid(c)
    \/ \E c \in Conns : sub_find(c)
    \/ \E c \in Conns : sub_create_header(c)
    \/ \E c \in Conns : sub_bind(c)
    \/ \E c \in Conns : sub_append(c)
    \/ \E c \in Conns : sub_open(c)
    \/ \E c \in Conns : sub_merge(c)
    \/ \E c \in Conns : sub_next_batch(c)
    \/ \E c \in Conns : sub_create_ticket(c)
    \/ \E c \in Conns : sub_finish(c)

SpecRace == Init /\ [][NextRace]_vars

\* two connections adding lines to one cart and changing their quantities,
\* their store calls interleaved
NextCartRace ==
    \/ \E c \in Conns, item \in RawItems : add_ensure(c, LockSid, item)
    \/ \E c \in Conns : add_get_cart(c)
    \/ \E c \in Conns : add_save(c)
    \/ \E c \in Conns, l \in LineIds, q \in {0, 2} : qty_ensure(c, LockSid, l, q)
    \/ \E c \in Conns : qty_get_cart(c)
    \/ \E c \in Conns : qty_save(c)

SpecCartRace == Init /\ [][NextCartRace]_vars

\* one cart filled, its lines locked, submitted (also while empty), the
\* tickets served and called, the session expiring
NextSubmit ==
    \/ \E item \in RawItems : on_cart_add("k1", LockSid, item)
    \/ \E c \in Conns, l \in ContendedLines : on_lock_line(c, LockSid, l, NickFor(c))
    \/ \E c \in Conns : on_submit(c, LockSid)
    \/ \E t \in 1..MaxAdds : update_order_status_api(t, "done")
    \/ Tick

SpecSubmit == Init /\ [][NextSubmit]_vars

\* sessions created, filled, queried and expiring
NextSession ==
    \/ \E sid \in SessionIds, item \in RawItems : on_cart_add("k1", sid, item)
    \/ \E sid \in SessionIds : new_session(sid)
    \/ \E sid \in SessionIds : session_exists(sid)
    \/ Tick

SpecSession == Init /\ [][NextSession]_vars

\* ensure_session applied with force_reset to sessions in every state: absent,
\* active with lines in the cart, expired
NextReset ==
    \/ \E sid \in SessionIds, item \in RawItems : on_cart_add("k1", sid, item)
    \/ \E sid \in SidInputs : ensure_session_call(sid, TRUE)
    \/ Tick

SpecReset == Init /\ [][NextReset]_vars

\* two create-session requests whose store calls interleave, the sessions
\* handed out expiring
NextSessionRace ==
    \/ \E c \in Conns, sid \in SessionIds : ns_check(c, sid)
    \/ \E c \in Conns : ns_ensure(c)
    \/ Tick

SpecSessionRace == Init /\ [][NextSessionRace]_vars

\* the items clients send with cart_add: fields missing, quantities of zero
\* and below, a negative price, add-ons with and without a price
CartInputs ==
    { [price |-> 30, qty |-> 2],
      [price |-> 30, qty |-> 0, remark |-> "hot"],
      [qty |-> -1],
      [price |-> 20, addOns |-> << [price |-> 10], [name |-> "pearl"] >>],
      [price |-> -5, qty |-> 1] }

\* the quantities clients send with cart_set_qty
QtyInputs == {-1, 0, 3}

\* one cart filled with whatever clients send, its quantities changed
NextTotals ==
    \/ \E item \in CartInputs : on_cart_add("k1", LockSid, item)
    \/ \E l \in LineIds, q \in QtyInputs : on_cart_set_qty("k1", LockSid, l, q)

SpecTotals == Init /\ [][NextTotals]_vars

\* the items of a client that names the lines itself: without a line id, with
\* the id of a line it has seen in a snapshot, with a negative price
\* the staff requests next to one table ordering: ticket status updates with
\* every status input and ticket ids that may not exist
TicketIds == 0..MaxAdds

NextStaff ==
    \/ \E item \in RawItems : on_cart_add("k1", LockSid, item)
    \/ on_submit("k1", LockSid)
    \/ \E t \in TicketIds, st \in StatusInputs : update_order_status_api(t, st)

SpecStaff == Init /\ [][NextStaff]_vars

\* the call announcer: staff set and read the code while time passes and a
\* table's tickets are marked done
NextCall ==
    \/ \E item \in RawItems : on_cart_add("k1", LockSid, item)
    \/ on_submit("k1", LockSid)
    \/ \E t \in 1..MaxAdds : update_order_status_api(t, "done")
    \/ \E code \in CodeInputs : api_call_post(code)
    \/ api_call_get
    \/ Tick

SpecCall == Init /\ [][NextCall]_vars

\* a lock that outlives its welcome: both connections ask for the same lines
\* and edit them while time passes and nobody unlocks or disconnects
NextLockTTL ==
    \/ \E item \in RawItems : on_cart_add("k1", LockSid, item)
    \/ \E c \in Conns, l \in ContendedLines : on_lock_line(c, LockSid, l, NickFor(c))
    \/ \E c \in Conns, l \in ContendedLines : on_cart_set_qty(c, LockSid, l, 2)
    \/ Tick

SpecLockTTL == Init /\ [][NextLockTTL]_vars

\* two connections sharing one session's view: they join, rename themselves,
\* lock, edit and submit while time passes, and leave
NextView ==
    \/ \E c \in Conns : on_join(c, LockSid, NickFor(c))
    \/ on_set_nickname("k2", LockSid, "bob")
    \/ \E item \in RawItems : on_cart_add("k1", LockSid, item)
    \/ \E l \in ContendedLines : on_lock_line("k1", LockSid, l, NickFor("k1"))
    \/ \E l \in ContendedLines : on_unlock_line("k1", LockSid, l)
    \/ \E c \in Conns, l \in ContendedLines : on_cart_set_qty(c, LockSid, l, 2)
    \/ \E l \in ContendedLines : on_cart_remove("k1", LockSid, l)
    \/ on_submit("k1", LockSid)
    \/ \E c \in Conns : on_disconnect(c)
    \/ Tick

SpecView == Init /\ [][NextView]_vars

\* every kind of operation next to the call announcer: one connection joins,
\* locks, edits and submits, staff update tickets and set the code, and the
\* code is handed out
NextFrame ==
    \/ on_join("k1", LockSid, NickFor("k1"))
    \/ on_lock_line("k1", LockSid, 1, NickFor("k1"))
    \/ \E item \in RawItems : on_cart_add("k1", LockSid, item)
    \/ on_cart_set_qty("k1", LockSid, 1, 2)
    \/ on_cart_remove("k1", LockSid, 1)
    \/ on_submit("k1", LockSid)
    \/ \E t \in TicketIds, st \in ORDER_STATUS_ALLOWED : update_order_status_api(t, st)
    \/ new_session(LockSid)
    \/ \E code \in {"9999", "12"} : api_call_post(code)

SpecFrame == Init /\ [][NextFrame]_vars

\* a submission running store call by store call while staff move tickets
\* to making and another connection fills the cart
NextMergeRace ==
    \/ \E item \in RawItems : on_cart_add("k1", LockSid, item)
    \/ sub_begin("k2", LockSid)
    \/ sub_get_cart("k2")
    \/ sub_ensure("k2")
    \/ sub_get_oid("k2")
    \/ sub_find("k2")
    \/ sub_create_header("k2")
    \/ sub_bind("k2")
    \/ sub_append("k2")
    \/ sub_open("k2")
    \/ sub_merge("k2")
    \/ sub_next_batch("k2")
    \/ sub_create_ticket("k2")
    \/ sub_finish("k2")
    \/ \E t \in 1..MaxAdds : update_order_status_api(t, "making")

SpecMergeRace == Init /\ [][NextMergeRace]_vars

LineInputs ==
    { [price |-> 30, qty |-> 1],
      [lineId |-> 1, price |-> 30, qty |-> 1],
      [price |-> -5, qty |-> 1] }

\* one cart whose lines are added, edited, locked, removed and submitted
NextLines ==
    \/ \E item \in LineInputs : on_cart_add("k1", LockSid, item)
    \/ \E l \in LineIds : on_cart_set_qty("k1", LockSid, l, 2)
    \/ \E l \in LineIds : on_cart_set_remark("k1", LockSid, l, "no ice")
    \/ \E l \in LineIds : on_cart_remove("k1", LockSid, l)
    \/ \E l \in LineIds : on_lock_line("k1", LockSid, l, NickFor("k1"))
    \/ on_submit("k1", LockSid)

SpecLines == Init /\ [][NextLines]_vars

---------------------------------------------------------------------------
(* Properties *)

Range(f) == {f[x] : x \in DOMAIN f}

NewTicketsOf(d, o) ==
    {t \in 1..Len(d.tickets) : d.tickets[t].order_id = o /\ d.tickets[t].status = "new"}

\* the step is an on_submit of sid that answered ok: submit_result,
\* order_detail_result and the state snapshot went to the room
Submitted(sid) ==
    /\ Len(out') = 3
    /\ out'[1].event = "submit_result"
    /\ out'[1].data.ok
    /\ out'[1].room = sid
    /\ \E c \in Conns : on_submit(c, sid)

\* C1: in every reachable state each order has at most one ticket whose
\* status is new
C1_AtMostOneNewTicket ==
    \A o \in 1..Len(db.orders) : Cardinality(NewTicketsOf(db, o)) <= 1

\* C3: a submission of k lines for an order that has a ticket in status new
\* answers merged=true with the id and batch number of that ticket T (the most
\* recent new one); T's item count grows by exactly k, T stays new, and the
\* order has the same tickets as before
C3_MergeIntoOpenTicket ==
    [][ \A sid \in SessionIds :
          Submitted(sid) =>
            LET r == out'[1].data
                o == r.orderId
                T == SetMax(NewTicketsOf(db, o))
                k == Len(get_session_cart(db, sid))
            IN NewTicketsOf(db, o) # {} =>
                 /\ r.merged
                 /\ r.ticketId = T
                 /\ r.batchNo = db.tickets[T].batch_no
                 /\ k >= 1
                 /\ Len(db'.tickets[T].items) = Len(db.tickets[T].items) + k
                 /\ db'.tickets[T].status = "new"
                 /\ Len(db'.tickets) = Len(db.tickets)
                 /\ TicketsOf(db', o) = TicketsOf(db, o) ]_vars

\* a second submission has just been merged into the open ticket
C3_Witness ==
    /\ Len(out) = 3
    /\ out[1].event = "submit_result"
    /\ out[1].data.merged
    /\ out[1].data.ticketId \in 1..Len(db.tickets)
    /\ Len(db.tickets[out[1].data.ticketId].items) >= 2
    /\ db.tickets[out[1].data.ticketId].status = "new"

MaxBatchOf(d, o) ==
    SetMax({d.tickets[t].batch_no : t \in {u \in 1..Len(d.tickets) : d.tickets[u].order_id = o}})

\* C4: a submission for an order without a ticket in status new creates
\* exactly one ticket, with status new, and answers merged=false with a batch
\* number one greater than the order's previous maximum (1 when it had none)
C4_CreateNextBatch ==
    [][ \A sid \in SessionIds :
          Submitted(sid) =>
            LET r == out'[1].data
                o == r.orderId
                n == Len(db.tickets)
            IN NewTicketsOf(db, o) = {} =>
                 /\ ~r.merged
                 /\ Len(db'.tickets) = n + 1
                 /\ \A t \in 1..n : db'.tickets[t] = db.tickets[t]
                 /\ r.ticketId = n + 1
                 /\ db'.tickets[n + 1].status = "new"
                 /\ db'.tickets[n + 1].order_id = o
                 /\ db'.tickets[n + 1].batch_no = r.batchNo
                 /\ r.batchNo = MaxBatchOf(db, o) + 1 ]_vars

\* a submission after the open ticket moved to making has opened batch 2
C4_Witness ==
    /\ Len(out) = 3
    /\ out[1].event = "submit_result"
    /\ ~out[1].data.merged
    /\ out[1].data.batchNo = 2
    /\ out[1].data.ticketId = Len(db.tickets)
    /\ \E t \in 1..Len(db.tickets) :
          /\ db.tickets[t].order_id = out[1].data.orderId
          /\ db.tickets[t].status = "making"

AllowedMoves ==
    { <<"new", "making">>, <<"making", "done">>,
      <<"new", "cancelled">>, <<"making", "cancelled">> }

\* C9: a ticket's status only moves new -> making -> done, or to cancelled from
\* new or making; a done or cancelled ticket never changes status again
C9_StatusLifecycle ==
    [][ \A t \in 1..Len(db.tickets) :
          db'.tickets[t].status # db.tickets[t].status =>
            <<db.tickets[t].status, db'.tickets[t].status>> \in AllowedMoves ]_vars

\* C10: a status update that sets an existing ticket to done leaves the call
\* state's code equal to that ticket's session code, and getState returns it
C10_DoneCallsSession ==
    [][ \A t \in 1..MaxAdds :
          (t \in 1..Len(db.tickets) /\ update_order_status_api(t, "done")) =>
            /\ db'.call_state.code = db.tickets[t].session_id
            /\ get_call_state(db').code = db.tickets[t].session_id ]_vars

\* a ticket has just been set to done and its session code is being called
C10_Witness ==
    /\ Len(out) = 2
    /\ out[1].event = "call_update"
    /\ db.call_state.code \in SessionIds
    /\ \E t \in 1..Len(db.tickets) :
          /\ db.tickets[t].status = "done"
          /\ db.tickets[t].session_id = db.call_state.code

\* C2: once a submission for a session code has answered order id O, every
\* later submission for that code answers O and every later order_detail for
\* it resolves to O
C2_IdentityStable ==
    [][ /\ \A sid \in SessionIds : Cardinality(answered'[sid]) <= 1
        /\ \A c \in Conns, sid \in SessionIds :
              (on_order_detail(c, sid) /\ answered[sid] # {}) =>
                 /\ out'[1].data.exists
                 /\ out'[1].data.id \in answered[sid] ]_vars

\* a lookup resolves the order of an earlier submission after the session
\* expired and its row lost the binding
C2_Witness ==
    \E sid \in SessionIds :
       /\ answered[sid] # {}
       /\ Len(out) = 1
       /\ out[1].event = "order_detail_result"
       /\ out[1].to = "caller"
       /\ out[1].data.id \in answered[sid]
       /\ HasRow(db, sid)
       /\ db.sessions[sid].expires_at > SESSION_TTL_SECONDS + 1

\* C5: two submissions of one order that run concurrently never both create
\* a ticket: one creates it and the other merges into it
C5_NeverBothCreate ==
    \A c1, c2 \in Conns :
       ( /\ c1 # c2
         /\ inflight[c1].pc = "finish"
         /\ inflight[c2].pc = "finish"
         /\ inflight[c1].result.orderId = inflight[c2].result.orderId )
       => (inflight[c1].result.merged \/ inflight[c2].result.merged)

HasLine(d, sid, l) == \E i \in 1..Len(get_session_cart(d, sid)) :
                         get_session_cart(d, sid)[i].lineId = l

LineOf(d, sid, l) ==
    get_session_cart(d, sid)[CHOOSE i \in 1..Len(get_session_cart(d, sid)) :
                                get_session_cart(d, sid)[i].lineId = l]

HeldByConn(sid, l, c) ==
    l \in DOMAIN locks_in_room[sid] /\ locks_in_room[sid][l].bySid = c

HeldByAnother(sid, l, c) ==
    l \in DOMAIN locks_in_room[sid] /\ locks_in_room[sid][l].bySid # c

\* the answer to an edit of a line another connection holds: op_rejected to
\* the caller alone, naming the holder, and the store and the locks as before
RejectedNamingHolder(sid, l, c) ==
    /\ out' = <<ToCaller(c, "op_rejected",
                         [reason |-> "locked", byName |-> locks_in_room[sid][l].byName])>>
    /\ db' = db
    /\ locks_in_room' = locks_in_room

Accepted == Len(out') >= 1 /\ \A i \in 1..Len(out') : out'[i].event # "op_rejected"

\* edits of a line that another connection holds are rejected
C6_OthersRejected ==
    \A c \in Conns, l \in ContendedLines :
       HeldByAnother(LockSid, l, c) =>
          /\ \A q \in {0, 2} : on_cart_set_qty(c, LockSid, l, q) => RejectedNamingHolder(LockSid, l, c)
          /\ on_cart_set_remark(c, LockSid, l, "no ice") => RejectedNamingHolder(LockSid, l, c)
          /\ on_cart_remove(c, LockSid, l) => RejectedNamingHolder(LockSid, l, c)

\* edits by the holder of the lock, of a line that is in the stored cart, take
\* effect (when is the further condition the statement puts on the session)
C6_HolderSucceeds(when) ==
    \A c \in Conns, l \in ContendedLines :
       (HeldByConn(LockSid, l, c) /\ HasLine(db, LockSid, l) /\ when) =>
          /\ \A q \in {0, 2} :
                on_cart_set_qty(c, LockSid, l, q) =>
                   /\ Accepted
                   /\ HasLine(db', LockSid, l)
                   /\ LineOf(db', LockSid, l).qty = Max2(1, q)
          /\ on_cart_set_remark(c, LockSid, l, "no ice") =>
                /\ Accepted
                /\ HasLine(db', LockSid, l)
                /\ LineOf(db', LockSid, l).remark = "no ice"
          /\ on_cart_remove(c, LockSid, l) =>
                /\ Accepted
                /\ ~HasLine(db', LockSid, l)
                /\ Len(get_session_cart(db', LockSid)) = Len(get_session_cart(db, LockSid)) - 1

\* C6 as stated: while A holds the lock on line L, set-quantity, set-remark
\* and remove of L by another connection are rejected naming A and leave the
\* cart unchanged, and the same operations by A on an existing line L succeed
C6_LockGatesEdits ==
    [][ C6_OthersRejected /\ C6_HolderSucceeds(TRUE) ]_vars

\* C6 amended: the holder's operations succeed on an existing line of a
\* session that has not expired
C6_LockGatesEditsWhileActive ==
    [][ C6_OthersRejected /\ C6_HolderSucceeds(session_is_active(db, LockSid)) ]_vars

\* k2 has just been refused an edit of a line that k1 holds and has edited
C6_Witness ==
    \E l \in LineIds :
       /\ HeldByConn(LockSid, l, "k1")
       /\ out = <<ToCaller("k2", "op_rejected", [reason |-> "locked", byName |-> "amy"])>>
       /\ HasLine(db, LockSid, l)
       /\ LineOf(db, LockSid, l).qty = 2
       /\ LineOf(db, LockSid, l).remark = "no ice"

\* C7: lock_line grants the lock and announces lock_update when the line is
\* unlocked or held by the caller; when another connection holds it the answer
\* is lock_denied naming the holder and nothing changes; no step hands a lock
\* from one connection to another
C7_LockGrantOrDeny ==
    [][ /\ \A c \in Conns, l \in LineIds :
              on_lock_line(c, LockSid, l, NickFor(c)) =>
                 IF HeldByAnother(LockSid, l, c)
                 THEN /\ out' = <<ToCaller(c, "lock_denied",
                                     [lineId |-> l,
                                      byName |-> locks_in_room[LockSid][l].byName])>>
                      /\ UNCHANGED <<db, users_in_room, locks_in_room>>
                 ELSE /\ l \in DOMAIN locks_in_room'[LockSid]
                      /\ locks_in_room'[LockSid][l] =
                            [bySid |-> c, byName |-> NickOf(NickFor(c)), ts |-> now]
                      /\ out'[1] = ToRoom(LockSid, "lock_update",
                                          [lineId |-> l, byName |-> NickOf(NickFor(c))])
        /\ \A sid \in SidInputs :
              \A l \in (DOMAIN locks_in_room[sid]) \cap (DOMAIN locks_in_room'[sid]) :
                 locks_in_room'[sid][l].bySid = locks_in_room[sid][l].bySid ]_vars

\* k2 has just been denied the lock of a line that k1 holds
C7_Witness ==
    \E l \in LineIds :
       /\ HeldByConn(LockSid, l, "k1")
       /\ out = <<ToCaller("k2", "lock_denied", [lineId |-> l, byName |-> "amy"])>>

\* C8: after a connection disconnects it holds no lock in any session, and a
\* lock_remove went to the room for each lock it held
C8_DisconnectReleasesAll ==
    [][ \A c \in Conns :
          on_disconnect(c) =>
             \A sid \in SidInputs :
                /\ HeldBy(locks_in_room', sid, c) = {}
                /\ \A l \in HeldBy(locks_in_room, sid, c) :
                      ToRoom(sid, "lock_remove", [lineId |-> l]) \in Range(out') ]_vars

---------------------------------------------------------------------------
(* C11: cart operations on one session are linearizable.  When the store   *)
(* calls of two cart_add / cart_set_qty handlers on one session interleave, *)
(* no update is lost: a cart_add's save appends its line to the cart as    *)
(* stored at that moment, and a cart_set_qty's save changes nothing but    *)
(* the quantity of its own line.                                           *)

StoredCart(d) == get_session_cart(d, LockSid)

C11_NoLostUpdate ==
    [][ \A c \in Conns :
          /\ add_save(c) =>
                /\ Len(StoredCart(db')) = Len(StoredCart(db)) + 1
                /\ SubSeq(StoredCart(db'), 1, Len(StoredCart(db))) = StoredCart(db)
          /\ qty_save(c) =>
                /\ Len(StoredCart(db')) = Len(StoredCart(db))
                /\ \A i \in 1..Len(StoredCart(db)) :
                      StoredCart(db)[i].lineId # inflight[c].line_id
                         => StoredCart(db')[i] = StoredCart(db)[i] ]_vars

---------------------------------------------------------------------------
(* C12: join is strict.  A join for a session code that has no session row *)
(* or whose session has passed its expiry is rejected and changes no       *)
(* state: no session row is created or reset, no presence entry is added.  *)

C12_JoinIsStrict ==
    [][ \A c \in Conns, sid \in SessionIds :
          (on_join(c, sid, NickFor(c)) /\ ~session_is_active(db, sid))
             => /\ db' = db
                /\ users_in_room' = users_in_room ]_vars

---------------------------------------------------------------------------
(* C13: cart_add and submit_cart_as_order on a session code that is        *)
(* unknown or expired never fabricate a session: they create no session    *)
(* row and reset none.                                                     *)

C13_NoFabricatedSession ==
    [][ \A sid \in SessionIds :
          ( /\ ~session_is_active(db, sid)
            /\ \/ \E item \in RawItems : on_cart_add("k1", sid, item)
               \/ on_submit("k1", sid) )
             => db'.sessions = db.sessions ]_vars

---------------------------------------------------------------------------
(* C14: after a successful submit_cart_as_order on session S the stored    *)
(* cart of S is empty and no line of S is locked by any connection.        *)

C14_SubmitClearsCartAndLocks ==
    [][ Submitted(LockSid) =>
          /\ get_session_cart(db', LockSid) = <<>>
          /\ locks_in_room'[LockSid] = EmptyDict ]_vars

\* a submission has just been answered ok for an order that now holds a ticket
C14_Witness ==
    /\ Len(out) = 3
    /\ out[1].event = "submit_result"
    /\ out[1].data.ok
    /\ out[1].room = LockSid
    /\ out[1].data.ticketId \in 1..Len(db.tickets)
    /\ get_session_cart(db, LockSid) = <<>>
    /\ DOMAIN locks_in_room[LockSid] = {}

---------------------------------------------------------------------------
(* C15: submitting when the session's stored cart is empty answers         *)
(* ok=false with a reason and has no effect: no order is created or bound, *)
(* no ticket is created or changed, and the cart, the locks and the call   *)
(* state are unchanged.                                                    *)

---------------------------------------------------------------------------
(* C16: ensure_session with force_reset=True on a non-empty code always    *)
(* leaves that session with an empty cart and an expiry of now plus the    *)
(* session TTL, whatever the session was before: absent, active with a     *)
(* non-empty cart, or expired.                                             *)

C16_ForceResetEmptiesAndExtends ==
    [][ \A sid \in SessionIds :
          ensure_session_call(sid, TRUE)
             => /\ HasRow(db', sid)
                /\ get_session_cart(db', sid) = <<>>
                /\ db'.sessions[sid].expires_at = now + SESSION_TTL_SECONDS ]_vars

\* lines were added and no session ever expired, yet a session is empty with
\* a fresh expiry: it was reset while active with a non-empty cart
C16_Witness ==
    /\ now = 1
    /\ uuid_n = MaxAdds
    /\ out = <<>>
    /\ \E sid \in SessionIds :
          /\ HasRow(db, sid)
          /\ get_session_cart(db, sid) = <<>>
          /\ db.sessions[sid].expires_at = now + SESSION_TTL_SECONDS
          /\ \A other \in SessionIds \ {sid} : get_session_cart(db, other) = <<>>

---------------------------------------------------------------------------
(* C17: session_is_active(code) is true exactly when a session row for the *)
(* code exists and the current time is strictly before its stored expiry   *)
(* (as /session/exists answers it); once the clock has reached the expiry  *)
(* it stays false until the session is reset or its cart is saved again,   *)
(* which stores a new expiry.                                              *)

ExistsAnswer == out'[1].data.body.exists

C17_ActiveIffBeforeExpiry ==
    [][ \A sid \in SessionIds :
          /\ session_exists(sid)
                => ExistsAnswer = (HasRow(db, sid) /\ now < db.sessions[sid].expires_at)
          /\ (HasRow(db, sid) /\ now >= db.sessions[sid].expires_at
                             /\ session_is_active(db', sid))
                => /\ db'.sessions[sid].expires_at = now + SESSION_TTL_SECONDS
                   /\ db'.sessions[sid] # db.sessions[sid] ]_vars

\* /session/exists has just answered false while every session has a row
\* whose expiry the clock has reached
C17_Witness ==
    /\ Len(out) = 1
    /\ out[1].event = "http"
    /\ "exists" \in DOMAIN out[1].data.body
    /\ ~out[1].data.body.exists
    /\ \A sid \in SessionIds : HasRow(db, sid) /\ now = db.sessions[sid].expires_at

---------------------------------------------------------------------------
(* C18: create_unique_session_id never returns a code that belongs to an   *)
(* active session: at the moment a code is handed out (its session reset   *)
(* and the code answered) no active session has it, also when two create   *)
(* requests run concurrently.                                              *)

C18_NeverHandsOutActiveCode ==
    [][ \A c \in Conns :
          ns_ensure(c) => ~session_is_active(db, inflight[c].sid) ]_vars

---------------------------------------------------------------------------
(* C19: the total reported in every state snapshot equals the sum over the *)
(* cart's lines of (price + sum of add-on prices) * max(1, qty), negative  *)
(* or missing prices counted as 0 and quantities below 1 as 1.             *)

NonNeg(n) == IF n < 0 THEN 0 ELSE n

NormalisedTotal(cart) ==
    SumSeq([i \in 1..Len(cart) |->
              LET ons == Get(cart[i], "addOns", <<>>)
                  add == SumSeq([a \in 1..Len(ons) |-> NonNeg(Get(ons[a], "price", 0))])
              IN (NonNeg(Get(cart[i], "price", 0)) + add) * Max2(1, Get(cart[i], "qty", 1))])

C19_TotalIsNormalisedSum ==
    \A i \in 1..Len(out) :
       out[i].event = "session_state"
          => out[i].data.total = NormalisedTotal(out[i].data.cart)

---------------------------------------------------------------------------
(* C20: in every reachable state every line of every stored session cart   *)
(* has a quantity of at least 1, whatever quantities clients sent with     *)
(* cart_add or cart_set_qty (0 and negative values included).              *)

C20_StoredQtyAtLeastOne ==
    \A sid \in DOMAIN db.sessions :
       \A i \in 1..Len(db.sessions[sid].cart_json) :
          db.sessions[sid].cart_json[i].qty >= 1

\* the line sent without a price and with quantity -1 is stored (quantity 1)
\* next to a line whose quantity has been changed
C20_Witness ==
    /\ HasRow(db, LockSid)
    /\ \E i, j \in 1..Len(db.sessions[LockSid].cart_json) :
          /\ db.sessions[LockSid].cart_json[i].price = 0
          /\ db.sessions[LockSid].cart_json[i].qty = 1
          /\ db.sessions[LockSid].cart_json[j].price = 30
          /\ db.sessions[LockSid].cart_json[j].remark = "hot"
          /\ db.sessions[LockSid].cart_json[j].qty = 3

---------------------------------------------------------------------------
(* C21: in every reachable state every line of every stored session cart,  *)
(* order and ticket has a non-negative unit price, whatever price a client *)
(* sent with cart_add.                                                     *)

PricesOf(items) == {items[i].price : i \in 1..Len(items)}

C21_StoredPricesNonNegative ==
    /\ \A sid \in DOMAIN db.sessions : \A p \in PricesOf(db.sessions[sid].cart_json) : p >= 0
    /\ \A o \in 1..Len(db.orders) : \A p \in PricesOf(db.orders[o].items) : p >= 0
    /\ \A t \in 1..Len(db.tickets) : \A p \in PricesOf(db.tickets[t].items) : p >= 0

---------------------------------------------------------------------------
(* C22: line ids are unique within a cart and stable across edits: after   *)
(* any sequence of cart_add, cart_set_qty, cart_set_remark and cart_remove *)
(* no two lines of one stored cart share a line id, and cart_set_qty and   *)
(* cart_set_remark change no line's id.                                    *)

IdsOf(cart) == [i \in 1..Len(cart) |-> cart[i].lineId]

UniqueIds(cart) == \A i, j \in 1..Len(cart) : cart[i].lineId = cart[j].lineId => i = j

C22_LineIdsUniqueAndStable ==
    [][ /\ \A sid \in DOMAIN db'.sessions : UniqueIds(db'.sessions[sid].cart_json)
        /\ \A l \in LineIds :
              (on_cart_set_qty("k1", LockSid, l, 2) \/ on_cart_set_remark("k1", LockSid, l, "no ice"))
                 => IdsOf(get_session_cart(db', LockSid)) = IdsOf(get_session_cart(db, LockSid))
      ]_vars

---------------------------------------------------------------------------
(* C28: after a successful cart_remove of line L, L is no longer in the    *)
(* stored cart and no lock on L remains in the session's lock registry.    *)

C28_RemovedLineIsGone ==
    [][ \A l \in LineIds :
          (on_cart_remove("k1", LockSid, l) /\ Accepted)
             => /\ ~HasLine(db', LockSid, l)
                /\ l \notin DOMAIN locks_in_room'[LockSid] ]_vars

---------------------------------------------------------------------------
(* C23: every rejected operation (lock denied, edit of a line locked by    *)
(* another, line not found, empty-cart submission, missing session id)     *)
(* produces a message to the requesting connection only and none to the    *)
(* room, while every accepted mutation produces a message to the room.     *)

Rejection(m) ==
    \/ m.event \in {"lock_denied", "op_rejected"}
    \/ m.event = "submit_result" /\ ~m.data.ok

C23_RejectionsToCallerOnly ==
    [][ /\ (\E i \in 1..Len(out') : Rejection(out'[i]))
              => \A j \in 1..Len(out') : out'[j].to = "caller"
        /\ ( (\A i \in 1..Len(out') : ~Rejection(out'[i]))
              /\ <<db, users_in_room, locks_in_room>>' # <<db, users_in_room, locks_in_room>> )
              => \E j \in 1..Len(out') : out'[j].to = "room" ]_vars

---------------------------------------------------------------------------
(* C25: unlock_line releases a lock only when the requesting connection is *)
(* its holder, announcing lock_remove to the room; requested by any other  *)
(* connection, or on a line nobody holds, it leaves every lock unchanged   *)
(* and emits nothing.                                                      *)

C25_OnlyHolderReleases ==
    [][ \A c \in Conns, sid \in SessionIds, l \in LineIds :
          on_unlock_line(c, sid, l)
             => IF HeldByConn(sid, l, c)
                THEN /\ DOMAIN locks_in_room'[sid] = DOMAIN locks_in_room[sid] \ {l}
                     /\ \A k \in DOMAIN locks_in_room'[sid] :
                           locks_in_room'[sid][k] = locks_in_room[sid][k]
                     /\ \A s2 \in SessionIds \ {sid} : locks_in_room'[s2] = locks_in_room[s2]
                     /\ Len(out') >= 1
                     /\ out'[1] = [event |-> "lock_remove", to |-> "room", room |-> sid,
                                   data |-> [lineId |-> l]]
                ELSE /\ locks_in_room' = locks_in_room
                     /\ out' = <<>> ]_vars

C25_Witness ==
    /\ Len(out) = 2
    /\ out[1].event = "lock_remove"
    /\ \E l \in LineIds : HeldByConn(out[1].room, l, "k2")
    /\ out[1].data.lineId \notin DOMAIN locks_in_room[out[1].room]

---------------------------------------------------------------------------
(* C29: cart_set_qty, cart_set_remark and cart_remove naming a line id     *)
(* that is not in the session's cart answer op_rejected to the caller and  *)
(* change no state: the session's stored cart, its order binding and its   *)
(* locks are the same after the step as before it, whether the session is  *)
(* active, expired or unknown.                                             *)

EditOf(c, l) ==
    \/ \E q \in {0, 2} : on_cart_set_qty(c, LockSid, l, q)
    \/ on_cart_set_remark(c, LockSid, l, "no ice")
    \/ on_cart_remove(c, LockSid, l)

C29_MissingLineChangesNothing ==
    [][ \A c \in Conns, l \in ContendedLines :
          (~HasLine(db, LockSid, l) /\ EditOf(c, l))
             => /\ Len(out') = 1
                /\ out'[1].event = "op_rejected"
                /\ out'[1].to = "caller"
                /\ out'[1].room = c
                /\ get_session_cart(db', LockSid) = get_session_cart(db, LockSid)
                /\ _get_session_order_id(db', LockSid) = _get_session_order_id(db, LockSid)
                /\ locks_in_room' = locks_in_room ]_vars

---------------------------------------------------------------------------
(* C26: a ticket status update whose status is outside new, making, done,  *)
(* cancelled is rejected before any write, and an update for a ticket id   *)
(* that does not exist is reported as not-found; in both cases no ticket,  *)
(* no order and the call state are changed.  A status is read after        *)
(* trimming and case folding, so " Done " counts as done.                  *)

\* the step answered an HTTP request
IsHttpAnswer(o) == o # <<>> /\ o[Len(o)].event = "http"

AcceptedStatusInputs == ORDER_STATUS_ALLOWED \cup {" Done "}

C26_BadStatusUpdateChangesNothing ==
    [][ \A t \in TicketIds, st \in StatusInputs :
          (IsHttpAnswer(out') /\ update_order_status_api(t, st))
             => /\ st \notin AcceptedStatusInputs
                     => /\ Len(out') = 1
                        /\ out'[1].event = "http"
                        /\ out'[1].data.status = 400
                        /\ db' = db
                /\ (st \in AcceptedStatusInputs /\ t \notin 1..Len(db.tickets))
                     => /\ Len(out') = 1
                        /\ out'[1].event = "http"
                        /\ out'[1].data.status = 404
                        /\ db' = db
                /\ (st \in AcceptedStatusInputs /\ t \in 1..Len(db.tickets))
                     => /\ out'[Len(out')].data.status = 200
                        /\ db'.tickets[t].status \in ORDER_STATUS_ALLOWED ]_vars

C26_Witness ==
    /\ Len(db.tickets) >= 1
    /\ db.call_state.code # ""
    /\ Len(out) = 1
    /\ out[1].event = "http"
    /\ out[1].data.status = 400
    /\ out[1].data.body.msg = "invalid status"

---------------------------------------------------------------------------
(* C27: a set-call-code request whose code, once trimmed, is not exactly   *)
(* four digit characters is rejected, leaves the call state (code and      *)
(* timestamp) unchanged and emits no call_update; a well-formed code is    *)
(* stored and announced to all listeners.                                  *)

FourDigitInputs == WellFormedCodes \cup {" 9999 ", "arabic 3333"}

Trimmed(code) == IF code = " 9999 " THEN "9999" ELSE code

---------------------------------------------------------------------------
(* C30: line locks expire: once a lock's time-to-live has elapsed without  *)
(* its holder taking it again, lock_line by another connection is granted  *)
(* and a cart_set_qty by another connection is no longer rejected as       *)
(* locked.  The time-to-live is one tick here.                             *)

LockTTL == 1

Stale(sid, l, c) ==
    /\ HeldByAnother(sid, l, c)
    /\ now >= locks_in_room[sid][l].ts + LockTTL

C30_StaleLockIsReclaimed ==
    [][ \A c \in Conns, l \in ContendedLines :
          /\ (Stale(LockSid, l, c) /\ on_lock_line(c, LockSid, l, NickFor(c)))
                => /\ l \in DOMAIN locks_in_room'[LockSid]
                   /\ locks_in_room'[LockSid][l].bySid = c
          /\ (Stale(LockSid, l, c) /\ on_cart_set_qty(c, LockSid, l, 2))
                => out' # <<RejectLocked(locks_in_room, LockSid, l, c)>> ]_vars

---------------------------------------------------------------------------
(* C24: every successful mutation is followed, within its handler, by a    *)
(* full snapshot to the session's room whose cart, total, presence list    *)
(* and lock view equal the stored cart and the registries at that moment,  *)
(* so that between handlers every joined connection's last snapshot equals *)
(* the current state.  Step by step: every session_state a step emits is   *)
(* the view after the step, and a step that changes the view of a room     *)
(* somebody is joined to emits that room's session_state.                  *)

ViewOf(d, users, locks, sid) == broadcast_state(d, users, locks, sid).data

C24_SnapshotFollowsEveryChange ==
    [][ /\ \A i \in 1..Len(out') :
              out'[i].event = "session_state"
                 => out'[i] = broadcast_state(db', users_in_room', locks_in_room', out'[i].room)
        /\ ( /\ DOMAIN users_in_room'[LockSid] # {}
             /\ ViewOf(db', users_in_room', locks_in_room', LockSid)
                   # ViewOf(db, users_in_room, locks_in_room, LockSid) )
              => \E i \in 1..Len(out') :
                    out'[i] = broadcast_state(db', users_in_room', locks_in_room', LockSid)
      ]_vars

---------------------------------------------------------------------------
(* C31: the order header is append-only history: every successful          *)
(* submission appends its submitted lines to the end of the bound order's  *)
(* item list, and in every step an order's item list keeps its earlier     *)
(* content as a prefix and no order disappears.                            *)

IsPrefix(a, b) == Len(a) <= Len(b) /\ SubSeq(b, 1, Len(a)) = a

EndsWith(b, a) == Len(a) <= Len(b) /\ SubSeq(b, Len(b) - Len(a) + 1, Len(b)) = a

C31_HeaderOnlyGrows ==
    [][ /\ Len(db'.orders) >= Len(db.orders)
        /\ \A o \in 1..Len(db.orders) : IsPrefix(db.orders[o].items, db'.orders[o].items)
        /\ \A sid \in SessionIds :
              Submitted(sid) =>
                 LET o == out'[1].data.orderId
                     cart == get_session_cart(db, sid)
                 IN /\ o \in 1..Len(db'.orders)
                    /\ cart # <<>>
                    /\ EndsWith(db'.orders[o].items, cart)
                    /\ o \in 1..Len(db.orders)
                          => db'.orders[o].items = db.orders[o].items \o cart ]_vars

\* a later submission has been appended to a header that already had lines
C31_Witness ==
    /\ Len(out) = 3
    /\ out[1].event = "submit_result"
    /\ out[1].data.ok
    /\ out[1].data.orderId \in 1..Len(db.orders)
    /\ Len(db.orders[out[1].data.orderId].items) >= 3

---------------------------------------------------------------------------
(* C32: batch numbers are monotonic per order starting at 1: in every      *)
(* reachable state a ticket created later has a strictly greater batch     *)
(* number than every earlier ticket of the same order (so they are         *)
(* pairwise distinct) and the first ticket of an order has batch number 1, *)
(* also when submissions interleave.                                       *)

C32_BatchNumbersMonotonic ==
    \A o \in 1..Len(db.orders) :
       /\ \A t1, t2 \in TicketsOf(db, o) :
             t1 < t2 => db.tickets[t1].batch_no < db.tickets[t2].batch_no
       /\ \A t \in TicketsOf(db, o) :
             (\A u \in TicketsOf(db, o) : t <= u) => db.tickets[t].batch_no = 1

---------------------------------------------------------------------------
(* C33: the lock view of every state snapshot maps each locked line id to  *)
(* the holder's display name only: one entry per lock of the session, each *)
(* with the single field byName holding the stored display name, and no    *)
(* field or value carrying the holding connection's id.                    *)

C33_LockViewIsRedacted ==
    \A i \in 1..Len(out) :
       out[i].event = "session_state" =>
          LET v == out[i].data.locks
              held == locks_in_room[out[i].room]
          IN /\ DOMAIN v = DOMAIN held
             /\ \A l \in DOMAIN v :
                   /\ DOMAIN v[l] = {"byName"}
                   /\ v[l].byName = held[l].byName
                   /\ v[l].byName # held[l].bySid

\* a snapshot showing a lock of each connection
C33_Witness ==
    \E i \in 1..Len(out) :
       /\ out[i].event = "session_state"
       /\ \E l1, l2 \in DOMAIN out[i].data.locks :
             /\ HeldByConn(out[i].room, l1, "k1")
             /\ HeldByConn(out[i].room, l2, "k2")

---------------------------------------------------------------------------
(* C34: the call state changes only through a ticket status update to done *)
(* or a set-call-code request: every step that changes the call state's    *)
(* code or timestamp is one of those two, so joins, locks, cart edits,     *)
(* submissions, status updates to new, making or cancelled, and session    *)
(* creation leave it unchanged.                                            *)

C34_CallStateFrame ==
    [][ db'.call_state # db.call_state
           => \/ \E t \in TicketIds : update_order_status_api(t, "done")
              \/ \E code \in CodeInputs : api_call_post(code) ]_vars

\* a submission went through after staff set the call state
C34_Witness ==
    /\ db.call_state.code = "9999"
    /\ Len(out) = 3
    /\ out[1].event = "submit_result"
    /\ out[1].data.ok
    /\ \E t \in 1..Len(db.tickets) : db.tickets[t].status = "making"

---------------------------------------------------------------------------
(* C35: at most one order ever exists per session code: in every reachable *)
(* state, also with two first submissions of one code running concurrently *)
(* and across expiries and resets, no two order headers carry the same     *)
(* session code.                                                           *)

OrdersOf(d, sid) == {o \in 1..Len(d.orders) : d.orders[o].session_id = sid}

C35_OneOrderPerCode ==
    \A sid \in SessionIds : Cardinality(OrdersOf(db, sid)) <= 1

---------------------------------------------------------------------------
(* C36: a reset starts a fresh ordering session: handing a code out again  *)
(* clears its order binding, and a submission made while the code has no   *)
(* binding (the first one ever, or the first after a reset by expiry or by *)
(* force) is recorded in an order created by that submission, so it holds  *)
(* none of the items submitted before the reset.                           *)

C36_ResetStartsFreshOrder ==
    [][ \A sid \in SessionIds :
          /\ new_session(sid) => _get_session_order_id(db', sid) = 0
          /\ (_get_session_order_id(db, sid) = 0 /\ Submitted(sid))
                => /\ out'[1].data.orderId = Len(db.orders) + 1
                   /\ Len(db'.orders) = Len(db.orders) + 1 ]_vars

---------------------------------------------------------------------------
(* C37: no cart line is lost by a submission: also when a cart_add of one  *)
(* connection interleaves with a submission of another on the same         *)
(* session, every line accepted into the cart is, in every later state, in *)
(* the live cart or in a ticket (and so in the order); the submission's    *)
(* cart clear never drops it.                                              *)

LineIdsOf(items) == {items[i].lineId : i \in 1..Len(items)}

TicketLineIds(d) == UNION {LineIdsOf(d.tickets[t].items) : t \in 1..Len(d.tickets)}

C37_NoLineLostBySubmit ==
    \A l \in 1..uuid_n :
       \/ l \in LineIdsOf(get_session_cart(db, LockSid))
       \/ l \in TicketLineIds(db)

---------------------------------------------------------------------------
(* C38: only tickets in status new are merged into: a ticket whose status  *)
(* is making, done or cancelled keeps its item list in every step, also    *)
(* in the steps of a submission that was already running when the status   *)
(* was set.                                                                *)

C38_OnlyNewTicketsMerged ==
    [][ \A t \in 1..Len(db.tickets) :
          db.tickets[t].status # "new"
             => /\ t \in 1..Len(db'.tickets)
                /\ db'.tickets[t].items = db.tickets[t].items ]_vars

---------------------------------------------------------------------------
(* C39: order header and tickets agree: in every reachable state the       *)
(* header's item list holds each submitted line exactly once, so its       *)
(* length equals the number of lines over all tickets of the order, and    *)
(* the header's total equals the sum of its tickets' totals.               *)

TicketLinesOf(d, o) ==
    SumSeq([t \in 1..Len(d.tickets) |->
               IF d.tickets[t].order_id = o THEN Len(d.tickets[t].items) ELSE 0])

TicketTotalOf(d, o) ==
    SumSeq([t \in 1..Len(d.tickets) |->
               IF d.tickets[t].order_id = o THEN calc_total(d.tickets[t].items) ELSE 0])

C39_HeaderAgreesWithTickets ==
    \A o \in 1..Len(db.orders) :
       TicketsOf(db, o) # {} =>
          /\ Len(db.orders[o].items) = TicketLinesOf(db, o)
          /\ calc_total(db.orders[o].items) = TicketTotalOf(db, o)

---------------------------------------------------------------------------
(* C40: no state snapshot pushed to a room exposes a participant's         *)
(* connection id: no field of any entry of the presence list and no field  *)
(* of any entry of the lock view of a session_state message is the         *)
(* transport connection id of a connection.                                *)

C40_SnapshotHidesConnectionIds ==
    \A i \in 1..Len(out) :
       out[i].event = "session_state" =>
          /\ \A u \in out[i].data.users : \A k \in DOMAIN u : u[k] \notin Conns
          /\ \A l \in DOMAIN out[i].data.locks :
                \A k \in DOMAIN out[i].data.locks[l] : out[i].data.locks[l][k] \notin Conns
====
